---------------------------- MODULE Spec2Model ----------------------------
(***************************************************************************)
(* A model of main.py: the fan-out routine list_and_search_all_stores and   *)
(* the three-stage sequential workflow (root_agent) that drives it.         *)
(*                                                                          *)
(* Python strings are TLA+ strings (sequences of characters); f-strings are *)
(* concatenations, str.join and str.split are the recursive operators Join  *)
(* and Split.  The external services (the data store directory, the search  *)
(* tool constructor) are nondeterministic: each call either returns or      *)
(* raises, and every call made is appended to the log `calls`.              *)
(***************************************************************************)
EXTENDS Integers, Sequences, FiniteSets, TLC

\* ------------------------------------------------------------- bounds
\* The directory returns at most MaxStores data stores.
MaxStores == 3

\* Resource names the directory may return (the identifier is the last
\* path component), the user queries and the messages of raised exceptions.
Names    == {"s/A", "B"}
Queries  == {"q", "a\n\nb"}
ExcMsgs  == {"denied"}
EnvValues == {"<None>", "", "p"}

\* os.environ.get returns None for a variable that is not set.
None == "<None>"
\* A local variable that has not been assigned: a string, a list.
Unset == "<unset>"
UnsetList == <<"<unset>">>

\* ---------------------------------------------------- string functions
\* str.find: the first position at which sep occurs in s, 0 when none.
RECURSIVE FindFrom(_, _, _)
FindFrom(s, sep, i) ==
    IF i + Len(sep) - 1 > Len(s) THEN 0
    ELSE IF SubSeq(s, i, i + Len(sep) - 1) = sep THEN i
    ELSE FindFrom(s, sep, i + 1)

\* str.split(sep): the pieces between the non-overlapping occurrences of
\* sep, scanning from the left; a string without sep is one piece.
RECURSIVE Split(_, _)
Split(s, sep) ==
    LET i == FindFrom(s, sep, 1) IN
    IF i = 0 THEN <<s>>
    ELSE <<SubSeq(s, 1, i - 1)>> \o Split(SubSeq(s, i + Len(sep), Len(s)), sep)

\* sep.join(parts)
RECURSIVE Join(_, _)
Join(parts, sep) ==
    IF parts = <<>> THEN ""
    ELSE IF Len(parts) = 1 THEN parts[1]
    ELSE parts[1] \o sep \o Join(Tail(parts), sep)

\* s.name.split('/')[-1]
LastComponent(name) ==
    LET pieces == Split(name, "/") IN pieces[Len(pieces)]

\* f"projects/{project_id}/locations/{location}/collections/default_collection"
ParentPath(p, l) ==
    "projects/" \o p \o "/locations/" \o l \o "/collections/default_collection"

\* f"Error: Could not list data stores. {e}"
ListErrorPrefix == "Error: Could not list data stores. "
ListError(e) == ListErrorPrefix \o e

\* f"Retrieved document from {store_id} related to '{query}'."
ResultSnippet(s, q) ==
    "Retrieved document from " \o s \o " related to '" \o q \o "'."

\* A copy of the enumeration handler's message in the per-store handler.
SearchErrorAsListError(s, e) == ListError(e)
\* f"Error searching in {store_id}: {e}"
SearchError(s, e) == "Error searching in " \o s \o ": " \o e

\* The blank line between the outcomes.
Separator == "\n\n"

\* ------------------------------------------------------------ workflow
\* A workflow whose last two stages are swapped.
sub_agents_swapped == <<"SearchCoordinatorAgent", "SummarizerAgent", "AnalysisAgent">>
\* root_agent's sub_agents, in the order given.
sub_agents == <<"SearchCoordinatorAgent", "AnalysisAgent", "SummarizerAgent">>

VARIABLES
    env,            \* GOOGLE_CLOUD_PROJECT
    mainpc,         \* the script: "start", "running", "complete", "noproject"
    stage,          \* number of sub-agents started in this run
    running,        \* whether sub-agent `stage` is running
    stageLog,       \* the stage starts and ends of the run, in order
    pc,             \* list_and_search_all_stores: "idle", "client", "listing",
                    \* "reading", "loop", "search", "returned"
    project_id, query, location,   \* its arguments
    parent, response,              \* its locals
    partial,        \* the list the comprehension of line 33 is building
    datastore_ids, idx, store_id, all_results,
    ret,            \* the value it returned
    calls,          \* the external calls of this invocation, with outcomes
    inProgress,     \* positions whose search has begun and is not recorded
    observed        \* an earlier invocation: its inputs, responses and result

vars == <<env, mainpc, stage, running, stageLog, pc, project_id, query,
          location, parent, response, partial, datastore_ids, idx, store_id,
          all_results, ret, calls, inProgress, observed>>

workflowVars == <<env, mainpc, stage, running, stageLog>>
argVars == <<project_id, query, location>>

\* One external call: what was called, with which arguments, whether it
\* raised, and what it returned (or the message it raised).
CallRecord(c, a, r, v) == [call |-> c, args |-> a, raised |-> r, value |-> v]

\* The lists of names the directory may answer with.
Responses == UNION {[1..n -> Names] : n \in 0..MaxStores}

\* No invocation has been kept yet.
NoObservation == [seen |-> FALSE, earlier |-> FALSE]

Init ==
    /\ env \in EnvValues
    /\ mainpc = "start"
    /\ stage = 0
    /\ running = FALSE
    /\ stageLog = <<>>
    /\ pc = "idle"
    /\ project_id = ""
    /\ query = ""
    /\ location = ""
    /\ parent = Unset
    /\ response = UnsetList
    /\ partial = UnsetList
    /\ datastore_ids = UnsetList
    /\ idx = 0
    /\ store_id = Unset
    /\ all_results = <<>>
    /\ ret = Unset
    /\ calls = <<>>
    /\ inProgress = {}
    /\ observed = NoObservation

\* ------------------------------------------------- the script (__main__)
\* Lines 93-95: without a project the script prints a hint and runs nothing.
MainNoProject ==
    /\ mainpc = "start"
    /\ env \in {None, ""}
    /\ mainpc' = "noproject"
    /\ UNCHANGED <<env, stage, running, stageLog>>
    /\ UNCHANGED <<pc, argVars, parent, response, partial, datastore_ids, idx,
                   store_id, all_results, ret, calls, inProgress, observed>>

\* Lines 96-110: the runner is created on root_agent and run.
MainRun ==
    /\ mainpc = "start"
    /\ env \notin {None, ""}
    /\ mainpc' = "running"
    /\ UNCHANGED <<env, stage, running, stageLog>>
    /\ UNCHANGED <<pc, argVars, parent, response, partial, datastore_ids, idx,
                   store_id, all_results, ret, calls, inProgress, observed>>

\* root_agent (a SequentialAgent) starts its next sub-agent once the
\* previous one has ended.
StageStart ==
    /\ mainpc = "running"
    /\ ~running
    /\ stage < Len(sub_agents)
    /\ stage' = stage + 1
    /\ running' = TRUE
    /\ stageLog' = Append(stageLog, <<"start", sub_agents[stage + 1]>>)
    /\ UNCHANGED <<env, mainpc>>
    /\ UNCHANGED <<pc, argVars, parent, response, partial, datastore_ids, idx,
                   store_id, all_results, ret, calls, inProgress, observed>>

\* The running sub-agent ends; the search coordinator cannot end while its
\* tool call is still executing.
StageEnd ==
    /\ mainpc = "running"
    /\ running
    /\ pc = "idle"
    /\ running' = FALSE
    /\ stageLog' = Append(stageLog, <<"end", sub_agents[stage]>>)
    /\ UNCHANGED <<env, mainpc, stage>>
    /\ UNCHANGED <<pc, argVars, parent, response, partial, datastore_ids, idx,
                   store_id, all_results, ret, calls, inProgress, observed>>

\* Lines 112-117: the events are exhausted and the report is printed.
MainComplete ==
    /\ mainpc = "running"
    /\ ~running
    /\ stage = Len(sub_agents)
    /\ mainpc' = "complete"
    /\ UNCHANGED <<env, stage, running, stageLog>>
    /\ UNCHANGED <<pc, argVars, parent, response, partial, datastore_ids, idx,
                   store_id, all_results, ret, calls, inProgress, observed>>

\* ------------------------------------------ list_and_search_all_stores
\* A result list that outlives the call (a module-level list, or a mutable
\* default argument) instead of line 25's fresh one.
KeptResults(previous) == previous
\* Line 25: all_results = []
NewResults(previous) == <<>>

\* The tool of the search coordinator is the only caller.
ToolAvailable ==
    /\ mainpc = "running"
    /\ running
    /\ sub_agents[stage] = "SearchCoordinatorAgent"

\* Lines 20-26: a call binds the arguments and creates the locals.
Call ==
    /\ ToolAvailable
    /\ pc = "idle"
    /\ \E q \in Queries :
        /\ project_id' = env
        /\ query' = q
        /\ location' = "global"
    /\ all_results' = NewResults(all_results)
    /\ parent' = Unset
    /\ response' = UnsetList
    /\ partial' = UnsetList
    /\ datastore_ids' = UnsetList
    /\ idx' = 0
    /\ store_id' = Unset
    /\ ret' = Unset
    /\ calls' = <<>>
    /\ inProgress' = {}
    /\ pc' = "client"
    /\ observed' = [observed EXCEPT !.earlier = observed.seen]
    /\ UNCHANGED workflowVars

\* Line 30: the directory client is created.
CreateClient ==
    /\ pc = "client"
    /\ calls' = Append(calls, CallRecord("DataStoreServiceClient", <<>>, FALSE, <<>>))
    /\ pc' = "listing"
    /\ UNCHANGED <<workflowVars, argVars, parent, response, partial,
                   datastore_ids, idx, store_id, all_results, ret, inProgress,
                   observed>>

\* Lines 31-32: the data stores under the parent are listed.
ListDataStores ==
    /\ pc = "listing"
    /\ parent' = ParentPath(project_id, location)
    /\ \E names \in Responses :
        /\ response' = names
        /\ calls' = Append(calls, CallRecord("list_data_stores", <<parent'>>, FALSE, names))
    /\ partial' = <<>>
    /\ pc' = "reading"
    /\ UNCHANGED <<workflowVars, argVars, datastore_ids, idx, store_id,
                   all_results, ret, inProgress, observed>>

\* Line 33: the comprehension reads the next data store of the response and
\* keeps the last component of its name.
ReadNext ==
    /\ pc = "reading"
    /\ Len(partial) < Len(response)
    /\ partial' = Append(partial, LastComponent(response[Len(partial) + 1]))
    /\ UNCHANGED <<workflowVars, pc, argVars, parent, response, datastore_ids, idx,
                   store_id, all_results, ret, calls, inProgress, observed>>

\* Lines 33-34: the response is exhausted and datastore_ids is assigned.
ReadDone ==
    /\ pc = "reading"
    /\ Len(partial) = Len(response)
    /\ datastore_ids' = partial
    /\ pc' = "loop"
    /\ UNCHANGED <<workflowVars, argVars, parent, response, partial, idx,
                   store_id, all_results, ret, calls, inProgress, observed>>

\* What raised in each phase of the enumeration.
EnumerationCall ==
    CASE pc = "client"  -> "DataStoreServiceClient"
      [] pc = "listing" -> "list_data_stores"
      [] pc = "reading" -> "next"
      [] OTHER          -> "none"

\* A handler that keeps what was enumerated so far and goes on to search.
EnumerationRaisesKeepsPartial ==
    /\ pc \in {"client", "listing", "reading"}
    /\ \E e \in ExcMsgs :
        calls' = Append(calls, CallRecord(EnumerationCall, <<>>, TRUE, <<e>>))
    /\ datastore_ids' = IF pc = "reading" THEN partial ELSE <<>>
    /\ pc' = "loop"
    /\ UNCHANGED <<workflowVars, argVars, parent, response, partial, idx,
                   store_id, all_results, ret, inProgress, observed>>

\* Lines 35-36: any exception of lines 30-34 ends the call with the error
\* string; datastore_ids was never assigned.
EnumerationRaises ==
    /\ pc \in {"client", "listing", "reading"}
    /\ \E e \in ExcMsgs :
        /\ calls' = Append(calls, CallRecord(EnumerationCall, <<>>, TRUE, <<e>>))
        /\ ret' = ListError(e)
    /\ pc' = "returned"
    /\ UNCHANGED <<workflowVars, argVars, parent, response, partial,
                   datastore_ids, idx, store_id, all_results, inProgress,
                   observed>>

\* A loop that starts the next search while one is still running.
CanStartSearchEagerly ==
    /\ pc \in {"loop", "search"}
    /\ datastore_ids # UnsetList
    /\ idx < Len(datastore_ids)
\* Line 39: the for loop has another store_id to hand out; the statement
\* runs only between iterations.
CanStartSearch ==
    /\ pc = "loop"
    /\ idx < Len(datastore_ids)

\* Lines 39-43: the next store_id is bound and the search tool for it is
\* being constructed, with data_store_id as its only argument.
SearchStart ==
    /\ CanStartSearch
    /\ idx' = idx + 1
    /\ store_id' = datastore_ids[idx + 1]
    /\ inProgress' = inProgress \cup {idx + 1}
    /\ pc' = "search"
    /\ UNCHANGED <<workflowVars, argVars, parent, response, partial,
                   datastore_ids, all_results, ret, calls, observed>>

\* Lines 43-46: the constructor returned; the outcome recorded is the
\* snippet built from store_id and query, not anything the tool produced.
SearchReturns ==
    /\ pc = "search"
    /\ calls' = Append(calls, CallRecord("VertexAiSearchTool", <<store_id>>, FALSE, <<>>))
    /\ all_results' = Append(all_results, ResultSnippet(store_id, query))
    /\ inProgress' = inProgress \ {idx}
    /\ pc' = "loop"
    /\ UNCHANGED <<workflowVars, argVars, parent, response, partial,
                   datastore_ids, idx, store_id, ret, observed>>

\* A handler around the whole loop: the first failure ends the iteration.
SearchRaisesAborts ==
    /\ pc = "search"
    /\ \E e \in ExcMsgs :
        /\ calls' = Append(calls, CallRecord("VertexAiSearchTool", <<store_id>>, TRUE, <<e>>))
        /\ all_results' = Append(all_results, SearchError(store_id, e))
    /\ idx' = Len(datastore_ids)
    /\ inProgress' = inProgress \ {idx}
    /\ pc' = "loop"
    /\ UNCHANGED <<workflowVars, argVars, parent, response, partial,
                   datastore_ids, store_id, ret, observed>>

\* A handler that swallows the exception (pass) and records nothing.
SearchRaisesSilently ==
    /\ pc = "search"
    /\ \E e \in ExcMsgs :
        calls' = Append(calls, CallRecord("VertexAiSearchTool", <<store_id>>, TRUE, <<e>>))
    /\ inProgress' = inProgress \ {idx}
    /\ pc' = "loop"
    /\ UNCHANGED <<workflowVars, argVars, parent, response, partial,
                   datastore_ids, idx, store_id, all_results, ret, observed>>

\* Lines 43, 47-48: the constructor raised; the inline error is recorded
\* and the loop goes on.
SearchRaises ==
    /\ pc = "search"
    /\ \E e \in ExcMsgs :
        /\ calls' = Append(calls, CallRecord("VertexAiSearchTool", <<store_id>>, TRUE, <<e>>))
        /\ all_results' = Append(all_results, SearchError(store_id, e))
    /\ inProgress' = inProgress \ {idx}
    /\ pc' = "loop"
    /\ UNCHANGED <<workflowVars, argVars, parent, response, partial,
                   datastore_ids, idx, store_id, ret, observed>>

\* An empty result list reported as an error.
AggregateOrError(results) ==
    IF results = <<>> THEN ListError("no data stores") ELSE Join(results, Separator)
\* Line 50: "\n\n".join(all_results)
Aggregate(results) == Join(results, Separator)

\* Line 50: the loop is exhausted and the aggregate is returned.
Return ==
    /\ pc = "loop"
    /\ idx = Len(datastore_ids)
    /\ ret' = Aggregate(all_results)
    /\ pc' = "returned"
    /\ UNCHANGED <<workflowVars, argVars, parent, response, partial,
                   datastore_ids, idx, store_id, all_results, calls,
                   inProgress, observed>>

\* What the external services answered in this invocation: which service,
\* whether it raised, and what it returned or raised.
ResponsesOf(log) ==
    [i \in 1..Len(log) |-> <<log[i].call, log[i].raised, log[i].value>>]

\* This invocation as an observer sees it.
Observation ==
    [seen |-> TRUE, earlier |-> FALSE, inputs |-> <<project_id, query, location>>,
     responses |-> ResponsesOf(calls), result |-> ret]

\* An observer keeps the invocation that has just returned, to compare a
\* later one with; the program's own state is untouched.
Observe ==
    /\ pc = "returned"
    /\ observed # Observation
    /\ observed' = Observation
    /\ UNCHANGED <<workflowVars, pc, argVars, parent, response, partial,
                   datastore_ids, idx, store_id, all_results, ret, calls,
                   inProgress>>

\* The caller receives the value.
ReturnToCaller ==
    /\ pc = "returned"
    /\ pc' = "idle"
    /\ UNCHANGED <<workflowVars, argVars, parent, response, partial,
                   datastore_ids, idx, store_id, all_results, ret, calls,
                   inProgress, observed>>

\* ------------------------------------------------------ specifications
\* The steps inside list_and_search_all_stores.
Step ==
    \/ CreateClient
    \/ ListDataStores
    \/ ReadNext
    \/ ReadDone
    \/ EnumerationRaises
    \/ SearchStart
    \/ SearchReturns
    \/ SearchRaises
    \/ Return

Next ==
    \/ MainNoProject
    \/ MainRun
    \/ StageStart
    \/ StageEnd
    \/ MainComplete
    \/ Call
    \/ Step
    \/ ReturnToCaller

Spec == Init /\ [][Next]_vars

\* The same program with an observer that may keep any invocation.
ObservedNext ==
    \/ Next
    \/ Observe

ObservedSpec == Init /\ [][ObservedNext]_vars

\* Every external call returns or raises, and the interpreter keeps
\* executing a call that has begun.
LiveSpec == Init /\ [][Next]_vars /\ WF_vars(Step)

\* ------------------------------------------------------------- claims
\* The calls of this invocation that constructed a search tool (line 43).
SearchCalls == SelectSeq(calls, LAMBDA c : c.call = "VertexAiSearchTool")

\* An exception was raised in lines 30-34 of this invocation.
EnumerationFailed ==
    \E i \in 1..Len(calls) :
        /\ calls[i].raised
        /\ calls[i].call \in {"DataStoreServiceClient", "list_data_stores", "next"}

\* Lines 33-34 completed: datastore_ids holds the whole enumeration.
Enumerated == datastore_ids # UnsetList

\* C1: when the enumeration fails (creating the client, the list call, or
\* reading the identifiers), the call returns the single error string built
\* from the exception alone, no search is attempted for any index, and no
\* identifier read before the failure is used.
C1_EnumerationFailureIsFatal ==
    EnumerationFailed =>
        /\ pc \in {"returned", "idle"}
        /\ ret = ListErrorPrefix \o calls[Len(calls)].value[1]
        /\ SearchCalls = <<>>
        /\ inProgress = {}
        /\ idx = 0
        /\ all_results = <<>>
        /\ datastore_ids = UnsetList

\* C1's case: the enumeration failed after two identifiers had been read.
C1_Witness ==
    /\ pc = "returned"
    /\ EnumerationFailed
    /\ partial # UnsetList
    /\ Len(partial) = 2

\* C2: exactly one outcome is recorded per enumerated index, in enumeration
\* order: the result of a succeeding index, an inline error naming the index
\* of a failing one; a failure neither ends the loop nor drops or reorders
\* another index's outcome.
C2_OneOutcomePerIndex ==
    Enumerated =>
        /\ datastore_ids = [i \in 1..Len(response) |-> LastComponent(response[i])]
        /\ Len(all_results) = Len(SearchCalls)
        /\ Len(all_results) <= Len(datastore_ids)
        /\ Len(all_results) = idx - Cardinality(inProgress)
        /\ pc \in {"returned", "idle"} => Len(all_results) = Len(datastore_ids)
        /\ \A i \in 1..Len(all_results) :
            IF SearchCalls[i].raised
            THEN /\ all_results[i] =
                        "Error searching in " \o datastore_ids[i] \o ": "
                            \o SearchCalls[i].value[1]
                 /\ FindFrom(all_results[i], datastore_ids[i], 1) > 0
            ELSE all_results[i] =
                    "Retrieved document from " \o datastore_ids[i]
                        \o " related to '" \o query \o "'."

\* C2's case: of three indexes the middle one failed and the others were
\* searched and recorded around it.
C2_Witness ==
    /\ pc = "returned"
    /\ Enumerated
    /\ Len(all_results) = 3
    /\ ~SearchCalls[1].raised
    /\ SearchCalls[2].raised
    /\ ~SearchCalls[3].raised

\* C3: with N enumerated indexes (identifiers may repeat) and every search
\* succeeding, the returned value consists of exactly N non-empty segments
\* separated by a blank line, the i-th being the i-th index's result.
C3_ExactlyNSegments ==
    (/\ pc = "returned"
     /\ Enumerated
     /\ \A i \in 1..Len(SearchCalls) : ~SearchCalls[i].raised)
    => LET segments == IF ret = "" THEN <<>> ELSE Split(ret, "\n\n") IN
        /\ Len(segments) = Len(datastore_ids)
        /\ \A i \in 1..Len(segments) :
            /\ segments[i] # ""
            /\ segments[i] = ResultSnippet(datastore_ids[i], query)

\* C4: an enumeration that succeeds with no index returns the empty string,
\* attempts no search and reports no error.
C4_EmptyListEmptyString ==
    (pc = "returned" /\ Enumerated /\ datastore_ids = <<>>) =>
        /\ ret = ""
        /\ SearchCalls = <<>>
        /\ idx = 0
        /\ \A i \in 1..Len(calls) : ~calls[i].raised

\* C4's case: the directory answered with no data store and the call returned.
C4_Witness ==
    /\ pc = "returned"
    /\ Enumerated
    /\ response = <<>>
    /\ datastore_ids = <<>>

\* C5: two invocations with the same arguments, given the same responses of
\* the external services, return the same string, whatever was called before
\* or between them.
C5_SameInputsSameOutput ==
    (/\ pc = "returned"
     /\ observed.seen
     /\ observed.earlier
     /\ observed.inputs = <<project_id, query, location>>
     /\ observed.responses = ResponsesOf(calls))
    => observed.result = ret

\* C5's case: an earlier invocation and this one searched the same two
\* indexes with the same outcomes.
C5_Witness ==
    /\ pc = "returned"
    /\ observed.seen
    /\ observed.earlier
    /\ observed.inputs = <<project_id, query, location>>
    /\ observed.responses = ResponsesOf(calls)
    /\ Len(all_results) = 2
    /\ SearchCalls[2].raised

\* C6: for each enumerated index the external search service is called
\* exactly once, with the index's identifier and the query as inputs, the
\* outcome recorded is what that call produced, and a failed search is not
\* retried.
C6_SearchCalledWithQuery ==
    (pc = "returned" /\ Enumerated) =>
        /\ Len(SearchCalls) = Len(datastore_ids)
        /\ \A i \in 1..Len(SearchCalls) :
            /\ SearchCalls[i].args = <<datastore_ids[i], query>>
            /\ all_results[i] \in
                {SearchCalls[i].value[j] : j \in 1..Len(SearchCalls[i].value)}

\* C7: the enumeration completes before any search starts; the indexes are
\* searched in enumeration order, the next search beginning only when the
\* previous outcome is recorded, with at most one search in progress.
C7_SequentialSearches ==
    /\ (pc = "search" \/ inProgress # {} \/ SearchCalls # <<>>) =>
            /\ Enumerated
            /\ Len(datastore_ids) = Len(response)
    /\ Cardinality(inProgress) <= 1
    /\ inProgress # {} => inProgress = {Len(all_results) + 1}
    /\ Enumerated =>
        /\ Len(SearchCalls) <= Len(datastore_ids)
        /\ \A i \in 1..Len(SearchCalls) : SearchCalls[i].args[1] = datastore_ids[i]

\* C7's case: the second search is in progress and only the first outcome
\* has been recorded.
C7_Witness ==
    /\ pc = "search"
    /\ inProgress = {2}
    /\ Len(all_results) = 1

\* C8: a run executes search, analysis and summarization in that order,
\* each exactly once; no stage starts before the previous one has ended,
\* and the aggregated string is produced within the search stage.
C8_StagesInOrder ==
    LET StageOrder ==
            << <<"start", "SearchCoordinatorAgent">>, <<"end", "SearchCoordinatorAgent">>,
               <<"start", "AnalysisAgent">>, <<"end", "AnalysisAgent">>,
               <<"start", "SummarizerAgent">>, <<"end", "SummarizerAgent">> >>
    IN  /\ Len(stageLog) <= Len(StageOrder)
        /\ stageLog = SubSeq(StageOrder, 1, Len(stageLog))
        /\ pc # "idle" => stageLog = SubSeq(StageOrder, 1, 1)
        /\ mainpc = "complete" => stageLog = StageOrder

\* C8's case: a run that searched two indexes has completed all its stages.
C8_Witness ==
    /\ mainpc = "complete"
    /\ Len(all_results) = 2
    /\ Len(stageLog) = 6

\* C9: the result of a failed enumeration begins with 'Error: Could not
\* list data stores.'; a result returned after a successful enumeration is
\* empty or begins with a per-index outcome, and never with that prefix.
C9_ErrorResultDistinguishable ==
    LET StartsWith(s, p) == Len(p) <= Len(s) /\ SubSeq(s, 1, Len(p)) = p IN
    pc = "returned" =>
        IF EnumerationFailed
        THEN StartsWith(ret, "Error: Could not list data stores.")
        ELSE /\ \/ ret = ""
                \/ StartsWith(ret, "Retrieved document from ")
                \/ StartsWith(ret, "Error searching in ")
             /\ ~StartsWith(ret, "Error: Could not list data stores.")

\* C9's case: the enumeration succeeded and the first search failed, so the
\* returned value begins with an error message.
C9_Witness ==
    /\ pc = "returned"
    /\ ~EnumerationFailed
    /\ Len(all_results) = 2
    /\ SubSeq(ret, 1, 19) = "Error searching in "

\* C10: when every external call returns or raises, a call returns: after
\* exactly N loop iterations for N enumerated indexes, after none when the
\* enumeration fails, with as many outcomes recorded as iterations made.
C10_Terminates ==
    /\ [](pc = "returned" =>
            /\ Len(all_results) = idx
            /\ IF EnumerationFailed THEN idx = 0
               ELSE Enumerated /\ idx = Len(response))
    /\ (pc \in {"client", "listing", "reading", "loop", "search"} ~> pc = "returned")

\* C10's case: a call over three indexes, one of them failing, has returned.
C10_Witness ==
    /\ pc = "returned"
    /\ idx = 3
    /\ \E i \in 1..Len(SearchCalls) : SearchCalls[i].raised
=============================================================================
